---- MODULE Spec2Model ----
(***************************************************************************)
(* Model of ExcelSearchTool (src/main.py): the exact / partial / fuzzy     *)
(* search over one column of a loaded sheet, the two similarity scores,    *)
(* and the session state the GUI handlers keep.                            *)
(*                                                                         *)
(* A string is a sequence of one-character strings.  A cell is a string or *)
(* NULL (pandas NaN).  A DataFrame is [columns, index, rows]: the column   *)
(* names in order, the index label of each row, and each row as a function *)
(* from column name to cell.                                               *)
(***************************************************************************)
EXTENDS Integers, Sequences, FiniteSets, TLC

(***************************************************************************)
(* Bounds                                                                  *)
(***************************************************************************)
MaxRows == 2        \* rows of a loaded sheet
MaxSheetChars == 3  \* characters in the searched column of a sheet, all
                    \* rows together (a missing cell counts as one)
MaxEntryLen == 2    \* characters typed in the keyword entry
MaxKeyLen == 3      \* keyword length, score functions called on their own
MaxTextLen == 4     \* text length, score functions called on their own
MaxWordLen == 5     \* length of an argument without whitespace, likewise

(***************************************************************************)
(* Program constants                                                       *)
(***************************************************************************)
ScaleFrom == 50          \* ttk.Scale(from_=50, ...)
ScaleTo == 100           \* ttk.Scale(..., to=100)
DefaultThreshold == 80   \* tk.IntVar(value=80)

(***************************************************************************)
(* Characters.  "A" is the one cased letter, " " the whitespace, "." the   *)
(* regular-expression metacharacter.                                       *)
(***************************************************************************)
CellChars == {"a", "A"}
EntryChars == {"a", "A", ".", " "}
ScoreChars == {"a", "A", " "}
WordChars == {"a", "A"}

Whitespace == {" "}

\* a missing cell (pandas NaN): a sequence that is no string of characters
NULL == <<"NaN">>
\* Python None, for a variable that otherwise holds a record
None == [none |-> TRUE]

RECURSIVE StringsUpTo(_, _)
StringsUpTo(chars, n) ==
    IF n = 0 THEN {<<>>}
    ELSE LET shorter == StringsUpTo(chars, n - 1)
         IN  shorter \cup {Append(s, c) : s \in shorter, c \in chars}

(***************************************************************************)
(* Python str methods                                                      *)
(***************************************************************************)
\* str.lower
lower(s) == [i \in 1..Len(s) |-> IF s[i] = "A" THEN "a" ELSE s[i]]

\* str.strip: drop leading and trailing whitespace
RECURSIVE strip(_)
strip(s) ==
    IF s = <<>> THEN s
    ELSE IF Head(s) \in Whitespace THEN strip(Tail(s))
    ELSE IF s[Len(s)] \in Whitespace THEN strip(SubSeq(s, 1, Len(s) - 1))
    ELSE s

\* set(s.split()): the set of maximal runs of non-whitespace characters
split(s) ==
    {SubSeq(s, i, j) : <<i, j>> \in
        {p \in (1..Len(s)) \X (1..Len(s)) :
            /\ p[1] <= p[2]
            /\ \A x \in p[1]..p[2] : s[x] \notin Whitespace
            /\ (p[1] = 1 \/ s[p[1] - 1] \in Whitespace)
            /\ (p[2] = Len(s) \/ s[p[2] + 1] \in Whitespace)}}

\* the `in` operator on two str: sub occurs in s as a contiguous run
contains(s, sub) ==
    \E off \in 0..(Len(s) - Len(sub)) :
        \A x \in 1..Len(sub) : s[off + x] = sub[x]

\* str(value) / Series.astype(str): NaN becomes the text "nan"
str(value) == IF value = NULL THEN <<"n", "a", "n">> ELSE value

\* pd.isna
isna(value) == value = NULL

(***************************************************************************)
(* difflib.SequenceMatcher(None, a, b) without junk.  Positions are        *)
(* 1-based, ranges are lo <= x < hi.  (The autojunk heuristic only applies *)
(* to a second sequence of 200 or more elements.)                          *)
(***************************************************************************)
RECURSIVE CommonLen(_, _, _, _, _, _)
CommonLen(a, b, i, j, ahi, bhi) ==
    IF i < ahi /\ j < bhi /\ a[i] = b[j]
    THEN 1 + CommonLen(a, b, i + 1, j + 1, ahi, bhi)
    ELSE 0

\* <<i, j, k>>: the longest block a[i..i+k) = b[j..j+k) inside the ranges,
\* of those the one starting earliest in a, of those the earliest in b
find_longest_match(a, b, alo, ahi, blo, bhi) ==
    LET cand == (alo..(ahi - 1)) \X (blo..(bhi - 1))
        sized == {<<p[1], p[2], CommonLen(a, b, p[1], p[2], ahi, bhi)>> : p \in cand}
        best == CHOOSE m \in sized : \A q \in sized :
                    \/ m[3] > q[3]
                    \/ (m[3] = q[3] /\ m[1] < q[1])
                    \/ (m[3] = q[3] /\ m[1] = q[1] /\ m[2] <= q[2])
    IN  IF cand = {} \/ best[3] = 0 THEN <<alo, blo, 0>> ELSE best

\* sum of the sizes of get_matching_blocks()
RECURSIVE matches(_, _, _, _, _, _)
matches(a, b, alo, ahi, blo, bhi) ==
    LET m == find_longest_match(a, b, alo, ahi, blo, bhi)
        i == m[1]
        j == m[2]
        k == m[3]
    IN  IF k = 0 THEN 0
        ELSE k
             + (IF alo < i /\ blo < j
                THEN matches(a, b, alo, i, blo, j) ELSE 0)
             + (IF i + k < ahi /\ j + k < bhi
                THEN matches(a, b, i + k, ahi, j + k, bhi) ELSE 0)

\* ratio() without the doubling of the matched characters
ratio_undoubled(a, b) ==
    LET length == Len(a) + Len(b)
    IN  IF length > 0
        THEN <<matches(a, b, 1, Len(a) + 1, 1, Len(b) + 1), length>>
        ELSE <<1, 1>>

\* ratio() as the fraction <<numerator, denominator>>:
\* 2.0 * matches / length, and 1.0 when both sequences are empty
ratio(a, b) ==
    LET length == Len(a) + Len(b)
    IN  IF length > 0
        THEN <<2 * matches(a, b, 1, Len(a) + 1, 1, Len(b) + 1), length>>
        ELSE <<1, 1>>

\* int(fraction * 100): truncation.  The code truncates the floating-point
\* product; that is the exact quotient below as long as the two strings
\* have fewer than 100 characters together (at 100 characters with 29
\* matched, 0.58 * 100 is 57.99... and truncates to 57).
int100(f) == (f[1] * 100) \div f[2]

\* min() in place of max()
fmin(f, g) == IF f[1] * g[2] >= g[1] * f[2] THEN g ELSE f

\* max() of two fractions
fmax(f, g) == IF f[1] * g[2] >= g[1] * f[2] THEN f ELSE g

(***************************************************************************)
(* The two similarity scores                                               *)
(***************************************************************************)
\* calculate_similarity, the closure inside fuzzy_search
calculate_similarity(keyword, text, ic) ==
    IF isna(text) THEN 0
    ELSE LET text_processed == IF ic THEN lower(str(text)) ELSE str(text)
             keyword_processed == IF ic THEN lower(keyword) ELSE keyword
         IN  int100(ratio(keyword_processed, text_processed))

\* advanced_fuzzy_search with the containment test before the equality test
advanced_fuzzy_search_contained_first(keyword0, text0, ic) ==
    IF text0 = <<>> \/ keyword0 = <<>> THEN 0
    ELSE LET text == IF ic THEN lower(text0) ELSE text0
             keyword == IF ic THEN lower(keyword0) ELSE keyword0
             seq_ratio == ratio(keyword, text)
             keyword_words == split(keyword)
             text_words == split(text)
             word_ratio ==
                 IF keyword_words # {} /\ text_words # {}
                 THEN <<Cardinality(keyword_words \cap text_words),
                        Cardinality(keyword_words \cup text_words)>>
                 ELSE <<0, 1>>
         IN  IF contains(text, keyword) \/ contains(keyword, text) THEN 85
             ELSE IF keyword = text THEN 100
             ELSE int100(fmax(seq_ratio, word_ratio))

advanced_fuzzy_search(keyword0, text0, ic) ==
    IF text0 = <<>> \/ keyword0 = <<>> THEN 0
    ELSE LET text == IF ic THEN lower(text0) ELSE text0
             keyword == IF ic THEN lower(keyword0) ELSE keyword0
             seq_ratio == ratio(keyword, text)
             keyword_words == split(keyword)
             text_words == split(text)
             word_ratio ==
                 IF keyword_words # {} /\ text_words # {}
                 THEN <<Cardinality(keyword_words \cap text_words),
                        Cardinality(keyword_words \cup text_words)>>
                 ELSE <<0, 1>>
         IN  IF keyword = text THEN 100
             ELSE IF contains(text, keyword) \/ contains(keyword, text) THEN 85
             ELSE int100(fmax(seq_ratio, word_ratio))

(***************************************************************************)
(* State                                                                   *)
(***************************************************************************)
VARIABLES
    df,                   \* self.df: None or [columns, rows]
    columns,              \* self.columns
    search_results,       \* self.search_results: None or [columns, rows]
    input_file_path,      \* tk.StringVar
    output_file_path,     \* tk.StringVar
    search_column,        \* tk.StringVar (editable combobox)
    search_keyword,       \* tk.StringVar (entry)
    search_mode,          \* tk.StringVar (radio buttons)
    similarity_threshold, \* tk.IntVar (scale)
    ignore_case,          \* tk.BooleanVar (check button)
    status_var,           \* tk.StringVar shown in the status bar
    messagebox,           \* the dialog the last handler showed, or "none"
    call,                 \* a score function called on its own: its arguments
    returned              \* and the value it returned

vars == <<df, columns, search_results, input_file_path, output_file_path,
          search_column, search_keyword, search_mode, similarity_threshold,
          ignore_case, status_var, messagebox, call, returned>>

gui == <<input_file_path, output_file_path, search_column, search_keyword,
         search_mode, similarity_threshold, ignore_case>>

\* ExcelSearchTool.__init__ and create_status_area
Constructed ==
    /\ df = None
    /\ search_results = None
    /\ columns = <<>>
    /\ input_file_path = ""
    /\ output_file_path = ""
    /\ search_column = ""
    /\ search_keyword = <<>>
    /\ search_mode = "exact"
    /\ similarity_threshold = DefaultThreshold
    /\ ignore_case = TRUE
    /\ status_var = "select_file"
    /\ messagebox = "none"

\* no score function has been called on its own
NoCall == [fn |-> "none"]

(***************************************************************************)
(* pandas                                                                  *)
(***************************************************************************)
\* the column the code adds to a fuzzy result ('類似度', "similarity")
SimilarityColumn == "similarity"

Range(seq) == {seq[i] : i \in 1..Len(seq)}

\* pd.DataFrame(): no columns, no rows
EmptyDataFrame == [columns |-> <<>>, index |-> <<>>, rows |-> <<>>]

\* len(frame)
len(frame) == Len(frame.rows)

\* the positions at which a boolean Series is True, ascending
RECURSIVE positions(_, _)
positions(mask, n) ==
    IF n = 0 THEN <<>>
    ELSE IF mask[n] THEN Append(positions(mask, n - 1), n)
    ELSE positions(mask, n - 1)

\* the rows of frame at the given positions, in that order, labels kept
take(frame, pos) ==
    [columns |-> frame.columns,
     index |-> [k \in 1..Len(pos) |-> frame.index[pos[k]]],
     rows |-> [k \in 1..Len(pos) |-> frame.rows[pos[k]]]]

\* frame[mask].copy()
boolean_index(frame, mask) == take(frame, positions(mask, len(frame)))

\* frame[column] = values: sets the column, appended when it is new
set_column(frame, column, values) ==
    [columns |-> IF column \in Range(frame.columns) THEN frame.columns
                 ELSE Append(frame.columns, column),
     index |-> frame.index,
     rows |-> [k \in 1..len(frame) |->
                [c \in (DOMAIN frame.rows[k]) \cup {column} |->
                    IF c = column THEN values[k] ELSE frame.rows[k][c]]]]

\* frame.sort_values(by, ascending=False) with the default kind='quicksort',
\* which is not stable: every arrangement with non-increasing keys
sort_values(frame, by) ==
    LET n == len(frame)
        perms == {p \in [1..n -> 1..n] :
                    /\ \A x, y \in 1..n : x # y => p[x] # p[y]
                    /\ \A x \in 1..(n - 1) :
                        frame.rows[p[x]][by] >= frame.rows[p[x + 1]][by]}
    IN  {take(frame, p) : p \in perms}

\* Series.str.contains(pat, na=False): pat is a regular expression
\* (regex=True by default), searched anywhere in the text; "." matches any
\* character, every other character of the model matches itself
str_contains(text, pat) ==
    \E off \in 0..(Len(text) - Len(pat)) :
        \A x \in 1..Len(pat) : pat[x] = "." \/ text[off + x] = pat[x]

\* what a lookup of a missing column raises
KeyError == [raised |-> "KeyError"]

(***************************************************************************)
(* The three searches.  Each reads self.df and self.ignore_case.           *)
(***************************************************************************)
\* exact_search that folds the case of the cell but not of the keyword
exact_search_keyword_as_typed(keyword, column) ==
    IF column \notin Range(df.columns) THEN KeyError
    ELSE LET mask == [i \in 1..len(df) |->
                        IF ignore_case
                        THEN lower(str(df.rows[i][column])) = keyword
                        ELSE str(df.rows[i][column]) = keyword]
         IN  boolean_index(df, mask)

exact_search(keyword, column) ==
    IF column \notin Range(df.columns) THEN KeyError
    ELSE LET mask == [i \in 1..len(df) |->
                        IF ignore_case
                        THEN lower(str(df.rows[i][column])) = lower(keyword)
                        ELSE str(df.rows[i][column]) = keyword]
         IN  boolean_index(df, mask)

partial_search(keyword, column) ==
    IF column \notin Range(df.columns) THEN KeyError
    ELSE LET mask == [i \in 1..len(df) |->
                        IF ignore_case
                        THEN str_contains(lower(str(df.rows[i][column])), lower(keyword))
                        ELSE str_contains(str(df.rows[i][column]), keyword)]
         IN  boolean_index(df, mask)

\* fuzzy_search that keeps a row only when its score is above the threshold
fuzzy_search_above(keyword, column, threshold) ==
    IF len(df) > 0 /\ column \notin Range(df.columns) THEN {KeyError}
    ELSE LET similarity == [i \in 1..len(df) |->
                calculate_similarity(keyword, df.rows[i][column], ignore_case)]
             matching_indices ==
                positions([i \in 1..len(df) |-> similarity[i] > threshold], len(df))
             similarities ==
                [k \in 1..Len(matching_indices) |-> similarity[matching_indices[k]]]
         IN  IF matching_indices = <<>> THEN {EmptyDataFrame}
             ELSE sort_values(
                    set_column(take(df, matching_indices), SimilarityColumn, similarities),
                    SimilarityColumn)

\* the set of values fuzzy_search can return (the final sort leaves the
\* order of equal scores open)
fuzzy_search(keyword, column, threshold) ==
    IF len(df) > 0 /\ column \notin Range(df.columns) THEN {KeyError}
    ELSE LET similarity == [i \in 1..len(df) |->
                calculate_similarity(keyword, df.rows[i][column], ignore_case)]
             matching_indices ==
                positions([i \in 1..len(df) |-> similarity[i] >= threshold], len(df))
             similarities ==
                [k \in 1..Len(matching_indices) |-> similarity[matching_indices[k]]]
         IN  IF matching_indices = <<>> THEN {EmptyDataFrame}
             ELSE sort_values(
                    set_column(take(df, matching_indices), SimilarityColumn, similarities),
                    SimilarityColumn)

(***************************************************************************)
(* execute_search: the handler of the search button                        *)
(***************************************************************************)
\* execute_search whose fuzzy search writes the scores into self.df itself
\* (self.df['類似度'] = ...) before it filters
execute_search_scoring_in_place ==
    IF df = None \/ strip(search_keyword) = <<>> \/ search_column = ""
    THEN /\ messagebox' = "warning"
         /\ UNCHANGED <<df, columns, search_results, gui, status_var, call, returned>>
    ELSE LET keyword == strip(search_keyword)
             column == search_column
             outcomes ==
                CASE search_mode = "exact" -> {exact_search(keyword, column)}
                  [] search_mode = "partial" -> {partial_search(keyword, column)}
                  [] search_mode = "fuzzy" ->
                        fuzzy_search(keyword, column, similarity_threshold)
         IN  \E outcome \in outcomes :
                /\ IF outcome = KeyError
                   THEN /\ messagebox' = "error"
                        /\ status_var' = "search_error"
                        /\ UNCHANGED <<df, search_results>>
                   ELSE /\ search_results' = outcome
                        /\ messagebox' = "none"
                        /\ status_var' = "search_done"
                        /\ df' = IF search_mode = "fuzzy"
                                 THEN set_column(df, SimilarityColumn,
                                        [i \in 1..len(df) |->
                                            calculate_similarity(keyword,
                                                df.rows[i][column], ignore_case)])
                                 ELSE df
                /\ UNCHANGED <<columns, gui, call, returned>>

execute_search ==
    IF df = None \/ strip(search_keyword) = <<>> \/ search_column = ""
    THEN /\ messagebox' = "warning"
         /\ UNCHANGED <<df, columns, search_results, gui, status_var, call, returned>>
    ELSE LET keyword == strip(search_keyword)
             column == search_column
             outcomes ==
                CASE search_mode = "exact" -> {exact_search(keyword, column)}
                  [] search_mode = "partial" -> {partial_search(keyword, column)}
                  [] search_mode = "fuzzy" ->
                        fuzzy_search(keyword, column, similarity_threshold)
         IN  \E outcome \in outcomes :
                /\ IF outcome = KeyError
                   THEN /\ messagebox' = "error"
                        /\ status_var' = "search_error"
                        /\ UNCHANGED search_results
                   ELSE /\ search_results' = outcome
                        /\ messagebox' = "none"
                        /\ status_var' = "search_done"
                /\ UNCHANGED <<df, columns, gui, call, returned>>

(***************************************************************************)
(* The score functions called on their own                                 *)
(***************************************************************************)
Keywords == StringsUpTo(ScoreChars, MaxKeyLen) \cup StringsUpTo(WordChars, MaxWordLen)
Texts == StringsUpTo(ScoreChars, MaxTextLen) \cup StringsUpTo(WordChars, MaxWordLen)

InitScore ==
    /\ Constructed
    /\ \E k \in Keywords, t \in Texts \cup {NULL}, ic \in BOOLEAN :
        call = [fn |-> "none", keyword |-> k, text |-> t, ignore_case |-> ic]
    /\ returned = None

CallCalculateSimilarity ==
    /\ call.fn = "none"
    /\ call' = [call EXCEPT !.fn = "calculate_similarity"]
    /\ returned' = [value |-> calculate_similarity(call.keyword, call.text, call.ignore_case)]
    /\ UNCHANGED <<df, columns, search_results, gui, status_var, messagebox>>

CallAdvancedFuzzySearch ==
    /\ call.fn = "none"
    /\ call.text # NULL
    /\ call' = [call EXCEPT !.fn = "advanced_fuzzy_search"]
    /\ returned' = [value |-> advanced_fuzzy_search(call.keyword, call.text, call.ignore_case)]
    /\ UNCHANGED <<df, columns, search_results, gui, status_var, messagebox>>

NextScore == CallCalculateSimilarity \/ CallAdvancedFuzzySearch

SpecScore == InitScore /\ [][NextScore]_vars

(***************************************************************************)
(* A search on a loaded sheet                                              *)
(***************************************************************************)
\* the sheets a file can hold: no columns at all, or the one column
\* "name" over at most MaxRows rows.  An empty Excel cell is read as NaN.
SheetColumn == "name"

CellsUpTo(n) == {NULL} \cup (StringsUpTo(CellChars, n) \ {<<>>})

CellCost(cell) == IF cell = NULL THEN 1 ELSE Len(cell)

RECURSIVE CellSeqs(_, _)
CellSeqs(n, budget) ==
    IF n = 0 \/ budget = 0 THEN {<<>>}
    ELSE {<<>>} \cup UNION {
            {<<c>> \o rest : rest \in CellSeqs(n - 1, budget - CellCost(c))} :
            c \in CellsUpTo(budget)}

\* pd.read_excel: a frame with a RangeIndex
read_excel(cells) ==
    [columns |-> <<SheetColumn>>,
     index |-> [i \in 1..Len(cells) |-> i - 1],
     rows |-> [i \in 1..Len(cells) |-> [c \in {SheetColumn} |-> cells[i]]]]

Sheets == {EmptyDataFrame} \cup {read_excel(cells) : cells \in CellSeqs(MaxRows, MaxSheetChars)}

\* what the widgets can hold
Entries == StringsUpTo(EntryChars, MaxEntryLen)
ColumnEntries == {"", SheetColumn, "zz"}
Modes == {"exact", "partial", "fuzzy"}
Thresholds == {ScaleFrom, (ScaleFrom + ScaleTo) \div 2, ScaleTo}

\* a sheet has been loaded and the user has filled in the search settings
InitSearch ==
    /\ df \in Sheets
    /\ columns = df.columns
    /\ search_results = None
    /\ input_file_path = "book.xlsx"
    /\ output_file_path = "book_results.xlsx"
    /\ search_column \in ColumnEntries
    /\ search_keyword \in Entries
    /\ search_mode \in Modes
    /\ similarity_threshold \in Thresholds
    /\ ignore_case \in BOOLEAN
    /\ status_var = "loaded"
    /\ messagebox = "none"
    /\ call = NoCall
    /\ returned = None

NextSearch == execute_search

SpecSearch == InitSearch /\ [][NextSearch]_vars

(***************************************************************************)
(* A session: the handlers of the five buttons that act on the state, and  *)
(* the user's edits of the widgets, in any order.                          *)
(***************************************************************************)
\* the Excel files the user can pick, and the sheet each one holds
Files == {"book.xlsx", "other.xlsx"}

file_content(path) ==
    IF path = "book.xlsx" THEN read_excel(<< <<"a">>, <<"A">> >>)
    ELSE read_excel(<< <<"A">>, NULL >>)

\* Path(filename).parent / f"{base_name}_検索結果.xlsx"
output_name(filename) ==
    IF filename = "book.xlsx" THEN "book_results.xlsx" ELSE "other_results.xlsx"

\* what the user types in the keyword entry during a session
SessionEntries == {<<>>, <<"a">>, <<"A", " ">>}

browse_input_file ==
    \E filename \in Files :
        /\ input_file_path' = filename
        /\ output_file_path' =
            IF output_file_path = "" THEN output_name(filename)
            ELSE output_file_path
        /\ UNCHANGED <<df, columns, search_results, search_column, search_keyword,
                       search_mode, similarity_threshold, ignore_case,
                       status_var, messagebox, call, returned>>

browse_output_file ==
    \E filename \in {output_name(f) : f \in Files} :
        /\ output_file_path' = filename
        /\ UNCHANGED <<df, columns, search_results, input_file_path, search_column,
                       search_keyword, search_mode, similarity_threshold,
                       ignore_case, status_var, messagebox, call, returned>>

\* the user edits the widgets of the search settings
edit_search_keyword ==
    \E text \in SessionEntries :
        /\ search_keyword' = text
        /\ UNCHANGED <<df, columns, search_results, input_file_path,
                       output_file_path, search_column, search_mode,
                       similarity_threshold, ignore_case, status_var,
                       messagebox, call, returned>>

edit_search_column ==
    \E text \in ColumnEntries :
        /\ search_column' = text
        /\ UNCHANGED <<df, columns, search_results, input_file_path,
                       output_file_path, search_keyword, search_mode,
                       similarity_threshold, ignore_case, status_var,
                       messagebox, call, returned>>

select_search_mode ==
    \E mode \in Modes :
        /\ search_mode' = mode
        /\ UNCHANGED <<df, columns, search_results, input_file_path,
                       output_file_path, search_column, search_keyword,
                       similarity_threshold, ignore_case, status_var,
                       messagebox, call, returned>>

move_similarity_scale ==
    \E value \in {ScaleFrom, DefaultThreshold, ScaleTo} :
        /\ similarity_threshold' = value
        /\ UNCHANGED <<df, columns, search_results, input_file_path,
                       output_file_path, search_column, search_keyword,
                       search_mode, ignore_case, status_var, messagebox,
                       call, returned>>

toggle_ignore_case ==
    /\ ignore_case' = ~ignore_case
    /\ UNCHANGED <<df, columns, search_results, input_file_path,
                   output_file_path, search_column, search_keyword,
                   search_mode, similarity_threshold, status_var, messagebox,
                   call, returned>>

\* load_excel_file: the handler of the load button.  pd.read_excel either
\* returns the sheet of the file or raises (the file cannot be read); in
\* neither case is self.search_results assigned.
load_excel_file ==
    IF input_file_path = ""
    THEN /\ messagebox' = "warning"
         /\ UNCHANGED <<df, columns, search_results, gui, status_var, call, returned>>
    ELSE \/ /\ df' = file_content(input_file_path)
            /\ columns' = df'.columns
            /\ search_column' =
                IF columns' # <<>> THEN columns'[1] ELSE search_column
            /\ status_var' = "loaded"
            /\ messagebox' = "none"
            /\ UNCHANGED <<search_results, input_file_path, output_file_path,
                           search_keyword, search_mode, similarity_threshold,
                           ignore_case, call, returned>>
         \/ /\ messagebox' = "error"
            /\ status_var' = "load_error"
            /\ UNCHANGED <<df, columns, search_results, gui, call, returned>>

\* save_results: the handler of the save button.  It writes
\* self.search_results, the settings the widgets hold now and self.df to
\* the output file, or fails to write it.
save_results ==
    IF search_results = None \/ len(search_results) = 0
    THEN /\ messagebox' = "warning"
         /\ UNCHANGED <<df, columns, search_results, gui, status_var, call, returned>>
    ELSE IF output_file_path = ""
    THEN /\ messagebox' = "warning"
         /\ UNCHANGED <<df, columns, search_results, gui, status_var, call, returned>>
    ELSE \/ /\ status_var' = "saved"
            /\ messagebox' = "info"
            /\ UNCHANGED <<df, columns, search_results, gui, call, returned>>
         \/ /\ messagebox' = "error"
            /\ status_var' = "save_error"
            /\ UNCHANGED <<df, columns, search_results, gui, call, returned>>

\* clear_all: the handler of the clear button
clear_all ==
    /\ df' = None
    /\ search_results' = None
    /\ columns' = <<>>
    /\ input_file_path' = ""
    /\ output_file_path' = ""
    /\ search_keyword' = <<>>
    /\ search_column' = ""
    /\ status_var' = "cleared"
    /\ messagebox' = "none"
    /\ UNCHANGED <<search_mode, similarity_threshold, ignore_case, call, returned>>

Init ==
    /\ Constructed
    /\ call = NoCall
    /\ returned = None

Next ==
    \/ browse_input_file
    \/ browse_output_file
    \/ edit_search_keyword
    \/ edit_search_column
    \/ select_search_mode
    \/ move_similarity_scale
    \/ toggle_ignore_case
    \/ load_excel_file
    \/ execute_search
    \/ save_results
    \/ clear_all

Spec == Init /\ [][Next]_vars

(***************************************************************************)
(* Vocabulary of the properties                                            *)
(***************************************************************************)
\* case folding as the case flag asks for it
Normalize(s) == IF ignore_case THEN lower(s) ELSE s

\* the keyword of the query: the entry's text, trimmed
QueryKeyword == strip(search_keyword)

\* the searched cell of the sheet's row at position i
Cell(i) == df.rows[i][search_column]

\* execute_search has run the search in the given mode to its end
Searched(mode) == status_var = "search_done" /\ search_mode = mode

\* the index labels of the returned rows
ResultLabels == Range(search_results.index)

\* the basic similarity score of the query keyword and the row at position i
RowScore(i) == calculate_similarity(QueryKeyword, Cell(i), ignore_case)

\* sub occurs in s as a contiguous run of characters, literally
IsSubstring(sub, s) ==
    \/ sub = <<>>
    \/ \E i, j \in 1..Len(s) : SubSeq(s, i, j) = sub

Min(x, y) == IF x <= y THEN x ELSE y
Max(x, y) == IF x >= y THEN x ELSE y

(***************************************************************************)
(* C1.  The rows fuzzy_search returns are in descending order of score,    *)
(* and two returned rows with the same score are in ascending order of     *)
(* their original row index.                                               *)
(***************************************************************************)
C1_FuzzyRankedStable ==
    Searched("fuzzy") =>
        \A x, y \in 1..len(search_results) :
            x < y =>
                LET sx == search_results.rows[x][SimilarityColumn]
                    sy == search_results.rows[y][SimilarityColumn]
                IN  \/ sx > sy
                    \/ (sx = sy /\ search_results.index[x] < search_results.index[y])

(***************************************************************************)
(* C2.  fuzzy_search returns exactly the rows whose basic similarity score *)
(* (0 for a missing cell) is at least the threshold, each once and         *)
(* carrying that score, which lies between the threshold and 100; a        *)
(* missing cell is left out for every threshold of 1 or more, and a fuzzy  *)
(* search on a column of the sheet never ends in an error.                 *)
(***************************************************************************)
C2_FuzzyExactlyAboveThreshold ==
    /\ Searched("fuzzy") =>
        LET expected == {i \in 1..len(df) : RowScore(i) >= similarity_threshold}
        IN  /\ ResultLabels = {df.index[i] : i \in expected}
            /\ len(search_results) = Cardinality(expected)
            /\ \A k \in 1..len(search_results) :
                LET score == search_results.rows[k][SimilarityColumn]
                IN  /\ \E i \in expected :
                        /\ df.index[i] = search_results.index[k]
                        /\ score = RowScore(i)
                        /\ \A c \in Range(df.columns) :
                            search_results.rows[k][c] = df.rows[i][c]
                    /\ score >= similarity_threshold
                    /\ score <= 100
            /\ \A i \in 1..len(df) :
                (isna(Cell(i)) /\ similarity_threshold >= 1)
                    => df.index[i] \notin ResultLabels
    /\ (search_mode = "fuzzy" /\ search_column \in Range(df.columns))
        => status_var # "search_error"

\* a fuzzy search that returned one of two rows and left a missing cell out
C2_Witness ==
    /\ Searched("fuzzy")
    /\ len(df) = 2
    /\ len(search_results) = 1
    /\ search_results.rows[1][SimilarityColumn] < 100
    /\ \E i \in 1..len(df) : isna(Cell(i))

(***************************************************************************)
(* C3.  partial_search returns a row if and only if the normalized keyword *)
(* is a literal contiguous substring of the row's normalized cell, and     *)
(* never a row whose cell is missing.                                      *)
(***************************************************************************)
C3_PartialIffLiteralSubstring ==
    Searched("partial") =>
        ResultLabels =
            {df.index[i] : i \in {j \in 1..len(df) :
                /\ ~isna(Cell(j))
                /\ IsSubstring(Normalize(QueryKeyword), Normalize(Cell(j)))}}

(***************************************************************************)
(* C4.  exact_search returns exactly the rows whose cell, as text, equals  *)
(* the keyword after normalization, in ascending original row order, and   *)
(* attaches no score.                                                      *)
(***************************************************************************)
C4_ExactMatchesInOrder ==
    Searched("exact") =>
        /\ ResultLabels =
            {df.index[i] : i \in {j \in 1..len(df) :
                Normalize(str(Cell(j))) = Normalize(QueryKeyword)}}
        /\ \A x, y \in 1..len(search_results) :
            x < y => search_results.index[x] < search_results.index[y]
        /\ search_results.columns = df.columns
        /\ \A k \in 1..len(search_results) :
            /\ SimilarityColumn \notin DOMAIN search_results.rows[k]
            /\ \E i \in 1..len(df) :
                /\ df.index[i] = search_results.index[k]
                /\ df.rows[i] = search_results.rows[k]

\* an exact search without case that returned two rows whose cells differ
C4_Witness ==
    /\ Searched("exact")
    /\ len(search_results) = 2
    /\ search_results.rows[1] # search_results.rows[2]

(***************************************************************************)
(* C5.  A malformed query (a keyword that is empty once trimmed, a column  *)
(* that the loaded sheet does not have, a threshold outside 0..100) is     *)
(* rejected by execute_search: it never yields a result set, not even an   *)
(* empty one.                                                              *)
(***************************************************************************)
Malformed ==
    \/ QueryKeyword = <<>>
    \/ search_column \notin Range(df.columns)
    \/ similarity_threshold \notin 0..100

C5_MalformedRejected ==
    Malformed => (status_var # "search_done" /\ search_results = None)

(***************************************************************************)
(* C10.  A row whose normalized cell equals the normalized keyword is      *)
(* returned by fuzzy_search, with the score 100, whatever the threshold.   *)
(***************************************************************************)
C10_EqualCellAlwaysReturned ==
    Searched("fuzzy") =>
        \A i \in 1..len(df) :
            (~isna(Cell(i)) /\ Normalize(Cell(i)) = Normalize(QueryKeyword)) =>
                \E k \in 1..len(search_results) :
                    /\ search_results.index[k] = df.index[i]
                    /\ search_results.rows[k][SimilarityColumn] = 100

\* a fuzzy search at the threshold 100 that returned a row whose cell
\* equals the keyword only once the case is folded
C10_Witness ==
    /\ Searched("fuzzy")
    /\ similarity_threshold = 100
    /\ \E i \in 1..len(df) :
        /\ ~isna(Cell(i))
        /\ Cell(i) # QueryKeyword
        /\ Normalize(Cell(i)) = Normalize(QueryKeyword)
        /\ df.index[i] \in ResultLabels

(***************************************************************************)
(* Vocabulary of the properties of the score functions                     *)
(***************************************************************************)
Called(fn) == call.fn = fn

\* the arguments with the case folded as the flag of the call asks
CallKeyword == IF call.ignore_case THEN lower(call.keyword) ELSE call.keyword
CallText == IF call.ignore_case THEN lower(call.text) ELSE call.text

\* one of the two normalized arguments contains the other
Related == IsSubstring(CallKeyword, CallText) \/ IsSubstring(CallText, CallKeyword)

\* the basic score of the arguments of the call
BasicScore == calculate_similarity(call.keyword, call.text, call.ignore_case)

\* the whitespace-separated tokens of s, read left to right
RECURSIVE Tokens(_, _)
Tokens(s, word) ==
    IF s = <<>> THEN (IF word = <<>> THEN {} ELSE {word})
    ELSE IF Head(s) \in Whitespace
         THEN (IF word = <<>> THEN {} ELSE {word}) \cup Tokens(Tail(s), <<>>)
         ELSE Tokens(Tail(s), Append(word, Head(s)))

\* the Jaccard index of the token sets, times 100 and truncated; 0 when
\* either set is empty
WordScore(a, b) ==
    LET ta == Tokens(a, <<>>)
        tb == Tokens(b, <<>>)
    IN  IF ta = {} \/ tb = {} THEN 0
        ELSE (100 * Cardinality(ta \cap tb)) \div Cardinality(ta \cup tb)

(***************************************************************************)
(* C6.  The basic similarity score is symmetric: the score of (a, b) is    *)
(* the score of (b, a), with the same case flag.                           *)
(***************************************************************************)
C6_BasicScoreSymmetric ==
    (Called("calculate_similarity") /\ ~isna(call.text)) =>
        returned.value = calculate_similarity(call.text, call.keyword, call.ignore_case)

(***************************************************************************)
(* C7.  The basic similarity score is an integer between 0 and 100, and    *)
(* it is 0 whenever either string is empty, both being empty included.     *)
(***************************************************************************)
C7_BasicScoreRangeAndEmpty ==
    (Called("calculate_similarity") /\ ~isna(call.text)) =>
        /\ returned.value \in 0..100
        /\ (call.keyword = <<>> \/ call.text = <<>>) => returned.value = 0

(***************************************************************************)
(* C8, as claimed.  Whenever one normalized string contains the other     *)
(* (both non-empty), the composite score is 100 for equal strings and 85   *)
(* otherwise, and it is at least the basic score of the same pair.         *)
(***************************************************************************)
C8_CompositeAtLeastBasic ==
    (/\ Called("advanced_fuzzy_search")
     /\ call.keyword # <<>> /\ call.text # <<>>
     /\ Related) =>
        /\ returned.value = (IF CallKeyword = CallText THEN 100 ELSE 85)
        /\ returned.value >= BasicScore

(***************************************************************************)
(* C8, amended.  Whenever one normalized string contains the other: if     *)
(* either string is empty the composite score is 0; otherwise it is 100    *)
(* for equal strings and 85 for unequal ones, and it is at least the basic *)
(* score exactly when the strings are equal or 200 times the shorter       *)
(* length is less than 86 times the sum of the two lengths.                *)
(***************************************************************************)
C8_CompositeOfRelated ==
    (Called("advanced_fuzzy_search") /\ Related) =>
        IF call.keyword = <<>> \/ call.text = <<>>
        THEN returned.value = 0
        ELSE /\ returned.value = (IF CallKeyword = CallText THEN 100 ELSE 85)
             /\ (returned.value >= BasicScore) <=>
                    \/ CallKeyword = CallText
                    \/ 200 * Min(Len(call.keyword), Len(call.text))
                            < 86 * (Len(call.keyword) + Len(call.text))

\* the composite score of an unequal pair, one containing the other, whose
\* basic score is above 85
C8_Witness ==
    /\ Called("advanced_fuzzy_search")
    /\ Related
    /\ CallKeyword # CallText
    /\ returned.value = 85
    /\ BasicScore > 85

(***************************************************************************)
(* C9.  For non-empty arguments advanced_fuzzy_search returns 100 when the *)
(* normalized strings are equal, else 85 when one contains the other, else *)
(* the larger of the sequence ratio and the Jaccard index of the token     *)
(* sets, times 100 and truncated (the word score being 0 when either token *)
(* set is empty); the result is between 0 and 100.                         *)
(***************************************************************************)
C9_CompositeIsReference ==
    (Called("advanced_fuzzy_search") /\ call.keyword # <<>> /\ call.text # <<>>) =>
        /\ returned.value =
            (IF CallKeyword = CallText THEN 100
             ELSE IF Related THEN 85
             ELSE Max(int100(ratio(CallKeyword, CallText)),
                      WordScore(CallKeyword, CallText)))
        /\ returned.value \in 0..100

\* a composite score that the word overlap decides: neither equal nor
\* contained, and above the sequence ratio
C9_Witness ==
    /\ Called("advanced_fuzzy_search")
    /\ CallKeyword # CallText
    /\ ~Related
    /\ returned.value > int100(ratio(CallKeyword, CallText))
    /\ returned.value = WordScore(CallKeyword, CallText)

(***************************************************************************)
(* Vocabulary of the properties of a scan that fails at a row              *)
(***************************************************************************)
\* execute_search went past its three checks and ran a search
SearchRan == status_var \in {"search_done", "search_error"}

\* scoring the row at position i raises: the lookup row[column] of the scan
\* finds no such field (every cell read from a sheet converts with str())
RowRaises(i) == search_column \notin DOMAIN df.rows[i]

(***************************************************************************)
(* C11.  If scoring one row of a fuzzy scan raises, the scan is not        *)
(* aborted: the search completes, the row that raised is left out as       *)
(* non-matching, and the result holds exactly the well-formed rows that    *)
(* reach the threshold.                                                    *)
(***************************************************************************)
C11_RowFailureTolerated ==
    (/\ SearchRan
     /\ search_mode = "fuzzy"
     /\ \E i \in 1..len(df) : RowRaises(i)) =>
        /\ status_var = "search_done"
        /\ search_results # None
        /\ ResultLabels =
            {df.index[i] : i \in {j \in 1..len(df) :
                /\ ~RowRaises(j)
                /\ RowScore(j) >= similarity_threshold}}

(***************************************************************************)
(* C12.  No search changes the loaded sheet: whatever the mode and the     *)
(* outcome (a result, an empty result, an error, a refused request), the   *)
(* sheet's columns, its rows, their order and their cells are after        *)
(* execute_search what they were before, and so is the list of column      *)
(* names; the score column of a fuzzy result is in the result only.        *)
(***************************************************************************)
C12_SearchLeavesDatasetAlone ==
    [][execute_search =>
        /\ df' = df
        /\ columns' = columns
        /\ (status_var' = "search_done" /\ search_mode = "fuzzy"
                /\ len(search_results') > 0) =>
            /\ SimilarityColumn \in Range(search_results'.columns)
            /\ \A k \in 1..len(search_results') :
                SimilarityColumn \in DOMAIN search_results'.rows[k]]_vars

\* a fuzzy search has returned rows that carry the score while the sheet
\* they were taken from has no such column
C12_Witness ==
    /\ Searched("fuzzy")
    /\ len(search_results) > 0
    /\ SimilarityColumn \in Range(search_results.columns)
    /\ SimilarityColumn \notin Range(df.columns)
    /\ \A i \in 1..len(df) : SimilarityColumn \notin DOMAIN df.rows[i]

(***************************************************************************)
(* Vocabulary of the properties of a session                               *)
(***************************************************************************)
\* no result is stored, or an empty one
NoResults == search_results = None \/ len(search_results) = 0

(***************************************************************************)
(* C13.  In a session, stored results that are not empty were produced by  *)
(* the most recent execute_search, run on the sheet that is loaded now.    *)
(* Step by step: only a search that completes stores a result; a step      *)
(* that replaces or drops the loaded sheet leaves no result behind; and so *)
(* does an execute_search that is refused or fails.  (save_results then    *)
(* never writes a result of a replaced sheet or of a search older than the *)
(* last failed one.)                                                       *)
(***************************************************************************)
C13_ResultsFromLatestSearchOnLoadedSheet ==
    [][/\ (search_results' # search_results) =>
            \/ search_results' = None
            \/ (execute_search /\ status_var' = "search_done")
       /\ (df' # df) => NoResults'
       /\ (execute_search /\ status_var' # "search_done") => NoResults']_vars

====
